---- MODULE Spec2Model ----
(***************************************************************************)
(* The pub/sub delivery queue of zato-server:                              *)
(*   zato/server/service/internal/pubsub/queue.py                          *)
(*     GetMessages.handle         (lines 35-64)                            *)
(*     AcknowledgeDelivery.handle (lines 74-87)                            *)
(* Both services run inside one ODB session (one database transaction).    *)
(* The queries themselves, zato.common.odb.query_ps_queue.get_messages and *)
(* acknowledge_delivery, are not part of the sources at hand; they are     *)
(* modelled from the specification of fetchBatch / acknowledge (spec 4.3). *)
(*                                                                         *)
(* A transaction is modelled by its write set: the rows it has locked,     *)
(* each with the value the row will have once the transaction commits.     *)
(* session.commit() installs the write set and releases the locks,         *)
(* session.close() without a commit (an exception leaving the "with        *)
(* closing(...)" block) discards it.                                       *)
(*                                                                         *)
(* The WebSphere MQ connector container of zato-server:                    *)
(*   zato/server/connection/jms_wmq/jms/container.py                       *)
(*     ConnectionContainer.add_conn_def                 (lines 215-220)    *)
(*     ConnectionContainer.add_channel                  (lines 224-236)    *)
(*     ConnectionContainer._on_DEFINITION_JMS_WMQ_DELETE (lines 252-253)   *)
(*     ConnectionContainer.handle_http_request          (lines 257-265)    *)
(*     ConnectionContainer.check_credentials            (lines 269-284)    *)
(*     ConnectionContainer.on_wsgi_request              (lines 288-315)    *)
(* The container's methods are called by threads of their own; the WSGI    *)
(* server of run() serves one request at a time. WebSphereMQConnection is  *)
(* not part of the sources at hand; its constructor and connect() are      *)
(* modelled from the specification of Connection (spec 2 and 4.1).         *)
(*                                                                         *)
(* The listener task of the container:                                     *)
(*     WebSphereMQTask.__init__               (lines 82-90)                *)
(*     WebSphereMQTask.listen_for_messages    (lines 104-132)              *)
(* with the thread pool it submits the received messages to.               *)
(*                                                                         *)
(* The SSO Login and Logout services of zato-server:                       *)
(*   zato/server/service/internal/sso/user.py                              *)
(*     Login._handle_sso                      (lines 32-46)                *)
(*     Logout._handle_sso                     (lines 57-66)                *)
(* The SSO backend behind self.sso.user is not part of the sources at hand;*)
(* its login and logout are modelled by the outcomes the handlers can      *)
(* observe.                                                                *)
(*                                                                         *)
(* Spec is the delivery queue, ContainerSpec the container, ListenerSpec   *)
(* the listener task and SSOSpec the SSO services, each with the other     *)
(* parts at rest. LiveSpec, ContainerLiveSpec and ListenerLiveSpec add the *)
(* fairness of the steps of the threads involved.                          *)
(***************************************************************************)
EXTENDS Integers, Sequences, FiniteSets, TLC

\* ------------------------------------------------------------------ bounds
NumMsgs == 2
MaxTime == 1
MaxDelivery == 2
MaxConns == 2
MaxMsgsReceived == 6

\* Derived from the bounds: the largest batch_size a caller supplies, and the
\* expiration time of a message that outlives the modelled time span.
MaxBatch == NumMsgs - 1
MaxExp == MaxTime + 1

\* PUBSUB.DEFAULT.GET_BATCH_SIZE, the default of GetMessages.handle's
\* _batch_size parameter (the docstring and the spec give its value).
GET_BATCH_SIZE == 100

Msgs == 1 .. NumMsgs
SubKeys == {"sub-42", "sub-7"}
Procs == {"t1", "t2"}

\* The threads that call the container's methods.
Threads == {"c1", "c2"}

\* config.name of a connection definition, config.name of a channel.
ConnNames == {"conn1", "conn2"}
ChannelNames == {"chan1"}

\* input.msg_id_list: any set of stored ids, or an id that names no record.
AckInputs == (SUBSET Msgs) \cup {{0}}

\* input.batch_size: <<>> when the caller did not supply it, <<n>> otherwise.
BatchInputs == {<<>>} \cup {<<n>> : n \in 0 .. MaxBatch}

VARIABLES
    store,            \* committed rows: msg_id -> StoredMessage
    clock,            \* wall clock, in ms
    pc,               \* position of each service invocation
    in_sub_key,       \* input.sub_key of the call in progress
    in_batch_size,    \* input.batch_size of the call in progress
    in_msg_id_list,   \* input.msg_id_list of the call in progress
    now,              \* utcnow_as_ms() as passed to the query
    writes,           \* the open transaction's write set (locked rows)
    msg_list,         \* what get_messages returned to the handler
    payload,          \* self.response.payload
    outcome,          \* how the last call ended
    fetched,          \* history: times each message was returned to a caller
    ackDone,          \* history: messages a completed AcknowledgeDelivery confirmed
    call_time,        \* history: the time at which the call in progress started
    overlap           \* history: msg ids that fetches for the same sub_key returned
                      \*          since the fetch in progress started

VARIABLES
    connections,      \* self.connections: config.name -> connection object
    lock,             \* self.lock: the thread that holds it, or "none"
    cpc,              \* position of each thread inside a container method
    config,           \* the config / msg argument of the call in progress
    conn,             \* add_conn_def's local variable conn
    coutcome,         \* how each thread's last call ended
    conn_count,       \* connection objects constructed so far
    listeners,        \* listener tasks whose receive loop has been started
    environ,          \* the WSGI environ of the last request served
    response,         \* what on_wsgi_request did with it
    last_cmd          \* history: the last registry command that completed

VARIABLES
    task_conn,        \* WebSphereMQTask.conn: the connection the task owns
    keep_running,     \* WebSphereMQTask.keep_running: <<>> while unassigned,
                      \*   <<v>> once assigned the value v
    has_debug,        \* WebSphereMQTask.has_debug, likewise
    lpc,              \* whether the task is constructed, and the position of
                      \*   the listener thread in _impl
    message,          \* _impl's local variable message (0: none)
    requests_queue,   \* handlers_pool's queue of work requests not yet taken
    in_work,          \* work requests a worker thread has taken and is running
    results_queue,    \* handlers_pool's queue of finished work requests
    workRequests,     \* handlers_pool.workRequests: requests not yet polled
    calls_since_stop, \* history: receive calls issued with keep_running False
    received,         \* history: the messages receive returned, in order
    submitted,        \* history: the messages put to the pool, in order
    invoked           \* history: callback invocations per message

VARIABLES
    sessions,         \* the SSO sessions that are valid, by UST
    sso_input,        \* ctx.input of the last Logout request
    sso_status,       \* self.response.payload.status of the last Logout
    sso_raised,       \* history: whether self.sso.user.logout raised in it
    login_out         \* the last Login: ctx.input as passed to the backend
                      \*   and self.response.payload.ust

\* The delivery queue's variables.
qvars == <<store, clock, pc, in_sub_key, in_batch_size, in_msg_id_list, now,
           writes, msg_list, payload, outcome, fetched, ackDone, call_time,
           overlap>>

\* The connector container's variables.
cvars == <<connections, lock, cpc, config, conn, coutcome, conn_count,
           listeners, environ, response, last_cmd>>

\* The listener task's variables.
lvars == <<task_conn, keep_running, has_debug, lpc, calls_since_stop, message,
           requests_queue, in_work, results_queue, workRequests, received,
           submitted, invoked>>

\* The SSO user services' variables.
svars == <<sessions, sso_input, sso_status, sso_raised, login_out>>

vars == <<qvars, cvars, lvars, svars>>

\* ------------------------------------------------------------- helpers
Range(s) == {s[i] : i \in DOMAIN s}

Min(a, b) == IF a <= b THEN a ELSE b

\* The first n elements of a sequence (SQL LIMIT n).
Take(s, n) == SubSeq(s, 1, Min(n, Len(s)))

\* The elements of a set of msg ids in arrival order (ORDER BY).
RECURSIVE SortedIds(_)
SortedIds(S) ==
    IF S = {} THEN <<>>
    ELSE LET lo == CHOOSE x \in S : \A y \in S : x <= y
         IN <<lo>> \o SortedIds(S \ {lo})

\* Rows locked by transactions other than p's.
LockedByOthers(p) == UNION {DOMAIN writes[q] : q \in Procs \ {p}}

\* Rows locked by p's transaction.
LockedBy(p) == DOMAIN writes[p]

NoWrites == [m \in {} |-> 0]

\* ------------------------------------------- the store's queries (spec 4.3)
\* fetchBatch's selection: rows of sub_key that are not acknowledged and not
\* expired as of now, in arrival order, at most batch_size of them.
get_messages_rows(st, sub_key, batch_size, t) ==
    Take(SortedIds({m \in Msgs : /\ st[m].sub_key = sub_key
                                 /\ st[m].status # "acknowledged"
                                 /\ st[m].expiration_time > t}),
         batch_size)

\* fetchBatch's update: every selected row counts one more delivery attempt.
get_messages_writes(st, rows) ==
    [m \in rows |-> [st[m] EXCEPT !.delivery_count = @ + 1]]

\* acknowledge's target rows: the listed ids that are rows of sub_key.
acknowledge_delivery_rows(st, sub_key, msg_id_list) ==
    {m \in Msgs : m \in msg_id_list /\ st[m].sub_key = sub_key}

\* Fault: an acknowledgment also counts as a delivery attempt.
acknowledge_delivery_writes_counting(st, rows) ==
    [m \in rows |-> [st[m] EXCEPT !.status = "acknowledged", !.delivery_count = @ + 1]]

\* acknowledge's update: every target row becomes acknowledged.
acknowledge_delivery_writes(st, rows) ==
    [m \in rows |-> [st[m] EXCEPT !.status = "acknowledged"]]

\* ------------------------------------------------------- session handling
\* session.commit(): the write set becomes the committed value of its rows.
Committed(st, w) == [m \in Msgs |-> IF m \in DOMAIN w THEN w[m] ELSE st[m]]

\* -------------------------------------------------------------- GetMessages
\* Fault: the default batch size is 1 instead of GET_BATCH_SIZE.
EffectiveBatchSize_default_one(b) ==
    IF b = <<>> \/ b = <<0>> THEN 1 ELSE b[1]

\* batch_size = input.batch_size or _batch_size
EffectiveBatchSize(b) ==
    IF b = <<>> \/ b = <<0>> THEN GET_BATCH_SIZE ELSE b[1]

\* One element of msg_list / of the response payload.
Elem(st, m) ==
    [msg_id |-> m,
     expiration_time |-> st[m].expiration_time,
     delivery_count |-> st[m].delivery_count]

MsgIdsOf(s) == {s[i].msg_id : i \in DOMAIN s}

\* ------------------------------------------------- the container at rest
\* No connection object / no argument: the locals of a thread outside a call.
NoConn == [id |-> 0, state |-> "none"]
NoConfig == [name |-> "", connection_name |-> ""]
NoEnviron == [CONTENT_LENGTH |-> "", body |-> "", HTTP_AUTHORIZATION |-> ""]
NoResponse == [status |-> "", response |-> "", content_type |-> "",
               raised |-> "", dispatched |-> FALSE,
               start_response_calls |-> 0, body |-> <<>>]
\* self.connections = {}
NoConnections == [n \in {} |-> NoConn]
NoCmd == [op |-> "none", name |-> "", before |-> NoConnections]

\* ConnectionContainer.__init__: a free lock and an empty registry; no
\* listener has been started and no request served.
ContainerStart ==
    /\ connections = NoConnections
    /\ lock = "none"
    /\ cpc = [t \in Threads |-> "idle"]
    /\ config = [t \in Threads |-> NoConfig]
    /\ conn = [t \in Threads |-> NoConn]
    /\ coutcome = [t \in Threads |-> "none"]
    /\ conn_count = 0
    /\ listeners = {}
    /\ environ = NoEnviron
    /\ response = NoResponse
    /\ last_cmd = NoCmd

\* ------------------------------------------------ the listener task at rest
\* No WebSphereMQTask has been constructed: no attribute is assigned, no pool
\* and no listener thread exist.
ListenerAtRest ==
    /\ task_conn = NoConn
    /\ keep_running = <<>>
    /\ has_debug = <<>>
    /\ lpc = "no_task"
    /\ calls_since_stop = 0
    /\ message = 0
    /\ requests_queue = <<>>
    /\ in_work = {}
    /\ results_queue = {}
    /\ workRequests = {}
    /\ received = <<>>
    /\ submitted = <<>>
    /\ invoked = [m \in 1 .. MaxMsgsReceived |-> 0]

\* ------------------------------------------------ the SSO services at rest
NoInput == [ust |-> "", current_app |-> "", remote_addr |-> ""]

NoLogin == [remote_addr |-> "", user_agent |-> "", ust |-> ""]

SSOAtRest ==
    /\ sessions = {}
    /\ sso_input = NoInput
    /\ sso_status = ""
    /\ sso_raised = FALSE
    /\ login_out = NoLogin

\* No service invocation is in progress.
QueueIdle ==
    /\ clock = 0
    /\ pc = [p \in Procs |-> "idle"]
    /\ in_sub_key = [p \in Procs |-> ""]
    /\ in_batch_size = [p \in Procs |-> <<>>]
    /\ in_msg_id_list = [p \in Procs |-> {}]
    /\ now = [p \in Procs |-> 0]
    /\ writes = [p \in Procs |-> NoWrites]
    /\ msg_list = [p \in Procs |-> <<>>]
    /\ payload = [p \in Procs |-> <<>>]
    /\ outcome = [p \in Procs |-> "none"]
    /\ fetched = [m \in Msgs |-> 0]
    /\ ackDone = {}
    /\ call_time = [p \in Procs |-> 0]
    /\ overlap = [p \in Procs |-> {}]

Init ==
    /\ store \in [Msgs -> [sub_key : SubKeys,
                           expiration_time : {1, MaxExp},
                           status : {"pending"},
                           delivery_count : {0}]]
    /\ store[1].sub_key = "sub-42"
    /\ QueueIdle
    /\ ContainerStart
    /\ ListenerAtRest
    /\ SSOAtRest

\* Time passes.
Tick ==
    /\ clock < MaxTime
    /\ clock' = clock + 1
    /\ UNCHANGED <<store, pc, in_sub_key, in_batch_size, in_msg_id_list, now,
                   writes, msg_list, payload, outcome, fetched, ackDone,
                   call_time, overlap>>
    /\ UNCHANGED <<cvars, lvars, svars>>

\* Fetches for the same sub_key as p's that started before p returns its
\* payload and have not got their rows yet.
WaitingOn(p) ==
    {q \in Procs \ {p} : pc[q] = "get_called" /\ in_sub_key[q] = in_sub_key[p]}

\* What a returning call leaves behind: nothing but its outcome.
Return(p, how) ==
    /\ pc' = [pc EXCEPT ![p] = "idle"]
    /\ outcome' = [outcome EXCEPT ![p] = how]
    /\ in_sub_key' = [in_sub_key EXCEPT ![p] = ""]
    /\ in_batch_size' = [in_batch_size EXCEPT ![p] = <<>>]
    /\ in_msg_id_list' = [in_msg_id_list EXCEPT ![p] = {}]
    /\ now' = [now EXCEPT ![p] = 0]
    /\ msg_list' = [msg_list EXCEPT ![p] = <<>>]
    /\ payload' = [payload EXCEPT ![p] = <<>>]
    /\ call_time' = [call_time EXCEPT ![p] = 0]

\* Fault: the timestamp is taken once, when the service is loaded, and not by
\* the call.
GetCall_stale_now(p) ==
    /\ pc[p] = "idle"
    /\ \E k \in SubKeys, b \in BatchInputs :
          /\ in_sub_key' = [in_sub_key EXCEPT ![p] = k]
          /\ in_batch_size' = [in_batch_size EXCEPT ![p] = b]
    /\ now' = [now EXCEPT ![p] = 0]
    /\ call_time' = [call_time EXCEPT ![p] = clock]
    /\ pc' = [pc EXCEPT ![p] = "get_called"]
    /\ outcome' = [outcome EXCEPT ![p] = "none"]
    /\ UNCHANGED <<store, clock, in_msg_id_list, writes, msg_list, payload,
                   fetched, ackDone, overlap>>
    /\ UNCHANGED <<cvars, lvars, svars>>

\* GetMessages.handle up to the call of get_messages: the input is read, the
\* session is opened and the query is issued with the current time.
GetCall(p) ==
    /\ pc[p] = "idle"
    /\ \E k \in SubKeys, b \in BatchInputs :
          /\ in_sub_key' = [in_sub_key EXCEPT ![p] = k]
          /\ in_batch_size' = [in_batch_size EXCEPT ![p] = b]
    /\ now' = [now EXCEPT ![p] = clock]
    /\ call_time' = [call_time EXCEPT ![p] = clock]
    /\ pc' = [pc EXCEPT ![p] = "get_called"]
    /\ outcome' = [outcome EXCEPT ![p] = "none"]
    /\ UNCHANGED <<store, clock, in_msg_id_list, writes, msg_list, payload,
                   fetched, ackDone, overlap>>
    /\ UNCHANGED <<cvars, lvars, svars>>

\* get_messages returns: SELECT ... FOR UPDATE waits until none of the rows it
\* selects is locked by another transaction, locks them and counts a delivery.
GetSelect(p) ==
    /\ pc[p] = "get_called"
    /\ LET rows == get_messages_rows(store, in_sub_key[p],
                                     EffectiveBatchSize(in_batch_size[p]), now[p])
       IN /\ Range(rows) \cap LockedByOthers(p) = {}
          /\ \A m \in Range(rows) : store[m].delivery_count < MaxDelivery
          /\ writes' = [writes EXCEPT ![p] = get_messages_writes(store, Range(rows))]
          /\ msg_list' = [msg_list EXCEPT ![p] = [i \in DOMAIN rows |-> Elem(store, rows[i])]]
    /\ pc' = [pc EXCEPT ![p] = "get_selected"]
    \* batch_size and the timestamp are not read again
    /\ in_batch_size' = [in_batch_size EXCEPT ![p] = <<>>]
    /\ now' = [now EXCEPT ![p] = 0]
    /\ call_time' = [call_time EXCEPT ![p] = 0]
    /\ UNCHANGED <<store, clock, in_sub_key, in_msg_id_list,
                   payload, outcome, fetched, ackDone, overlap>>
    /\ UNCHANGED <<cvars, lvars, svars>>

\* Fault: session.commit() is called before the loop that builds the payload.
GetBuild_commit_first(p) ==
    /\ pc[p] = "get_selected"
    /\ store' = Committed(store, writes[p])
    /\ writes' = [writes EXCEPT ![p] = NoWrites]
    /\ payload' = [payload EXCEPT ![p] = msg_list[p]]
    /\ pc' = [pc EXCEPT ![p] = "get_built"]
    /\ overlap' = [overlap EXCEPT ![p] = {}]
    /\ UNCHANGED <<clock, in_sub_key, in_batch_size, in_msg_id_list, now,
                   msg_list, outcome, fetched, ackDone, call_time>>
    /\ UNCHANGED <<cvars, lvars, svars>>

\* The loop over msg_list appending one dictionary per element to the payload.
GetBuild(p) ==
    /\ pc[p] = "get_selected"
    /\ payload' = [payload EXCEPT ![p] = msg_list[p]]
    /\ pc' = [pc EXCEPT ![p] = "get_built"]
    /\ UNCHANGED <<store, clock, in_sub_key, in_batch_size, in_msg_id_list, now,
                   writes, msg_list, outcome, fetched, ackDone, call_time>>
    /\ overlap' = [overlap EXCEPT ![p] = {}]
    /\ UNCHANGED <<cvars, lvars, svars>>

\* Fault: the payload is returned without session.commit(); closing the session
\* rolls the transaction back.
GetCommit_not_committed(p) ==
    /\ pc[p] = "get_built"
    /\ writes' = [writes EXCEPT ![p] = NoWrites]
    /\ fetched' = [m \in Msgs |->
                     IF m \in MsgIdsOf(payload[p]) THEN fetched[m] + 1 ELSE fetched[m]]
    /\ overlap' = [q \in Procs |->
                     IF q = p THEN {}
                     ELSE IF q \in WaitingOn(p) THEN overlap[q] \cup MsgIdsOf(payload[p])
                     ELSE overlap[q]]
    /\ Return(p, "ok")
    /\ UNCHANGED <<store, clock, ackDone>>
    /\ UNCHANGED <<cvars, lvars, svars>>

\* Fault: the payload is returned with the session neither committed nor
\* closed, so the transaction stays open.
GetCommit_session_left_open(p) ==
    /\ pc[p] = "get_built"
    /\ fetched' = [m \in Msgs |->
                     IF m \in MsgIdsOf(payload[p]) THEN fetched[m] + 1 ELSE fetched[m]]
    /\ overlap' = [q \in Procs |->
                     IF q = p THEN {}
                     ELSE IF q \in WaitingOn(p) THEN overlap[q] \cup MsgIdsOf(payload[p])
                     ELSE overlap[q]]
    /\ Return(p, "ok")
    /\ UNCHANGED <<store, writes, clock, ackDone>>
    /\ UNCHANGED <<cvars, lvars, svars>>

\* session.commit() and the return of the payload to the caller.
GetCommit(p) ==
    /\ pc[p] = "get_built"
    /\ store' = Committed(store, writes[p])
    /\ writes' = [writes EXCEPT ![p] = NoWrites]
    /\ fetched' = [m \in Msgs |->
                     IF m \in MsgIdsOf(payload[p]) THEN fetched[m] + 1 ELSE fetched[m]]
    /\ overlap' = [q \in Procs |->
                     IF q = p THEN {}
                     ELSE IF q \in WaitingOn(p) THEN overlap[q] \cup MsgIdsOf(payload[p])
                     ELSE overlap[q]]
    /\ Return(p, "ok")
    /\ UNCHANGED <<clock, ackDone>>
    /\ UNCHANGED <<cvars, lvars, svars>>

\* Fault: the session is opened without "with closing(...)", so an exception
\* leaves it open, with its row locks.
GetFail_session_not_closed(p) ==
    /\ pc[p] \in {"get_called", "get_selected", "get_built"}
    /\ overlap' = [overlap EXCEPT ![p] = {}]
    /\ Return(p, "error")
    /\ UNCHANGED <<store, writes, clock, fetched, ackDone>>
    /\ UNCHANGED <<cvars, lvars, svars>>

\* An exception inside the "with closing(session)" block (the query fails, a
\* conversion in the loop raises, or the commit itself fails): the session is
\* closed without a commit having taken effect.
GetFail(p) ==
    /\ pc[p] \in {"get_called", "get_selected", "get_built"}
    /\ writes' = [writes EXCEPT ![p] = NoWrites]
    /\ overlap' = [overlap EXCEPT ![p] = {}]
    /\ Return(p, "error")
    /\ UNCHANGED <<store, clock, fetched, ackDone>>
    /\ UNCHANGED <<cvars, lvars, svars>>

\* ------------------------------------------------------ AcknowledgeDelivery
\* Fault: the test is "if msg_id_list is not None", which an empty list passes.
HasIds_not_none(msg_id_list) == TRUE

\* if msg_id_list:
HasIds(msg_id_list) == msg_id_list # {}

\* An empty msg_id_list: the handler returns without opening a session.
AckSkip(p) ==
    /\ pc[p] = "idle"
    /\ \E k \in SubKeys, ids \in AckInputs :
          /\ ~HasIds(ids)
          /\ Return(p, "noop")
    /\ UNCHANGED <<store, clock, writes, fetched, ackDone, overlap>>
    /\ UNCHANGED <<cvars, lvars, svars>>

\* A non-empty msg_id_list: the input is read, the session is opened and
\* acknowledge_delivery is called with the current time. The call is in
\* progress from here on, whether or not its UPDATE has to wait.
AckCall(p) ==
    /\ pc[p] = "idle"
    /\ \E k \in SubKeys, ids \in AckInputs :
          /\ HasIds(ids)
          /\ in_sub_key' = [in_sub_key EXCEPT ![p] = k]
          /\ in_msg_id_list' = [in_msg_id_list EXCEPT ![p] = ids]
    /\ now' = [now EXCEPT ![p] = clock]
    /\ pc' = [pc EXCEPT ![p] = "ack_called"]
    /\ outcome' = [outcome EXCEPT ![p] = "none"]
    /\ UNCHANGED <<store, clock, in_batch_size, writes, msg_list, payload,
                   fetched, ackDone, call_time, overlap>>
    /\ UNCHANGED <<cvars, lvars, svars>>

\* Fault: the query is given another subscriber's key (arguments mixed up).
AckUpdate_other_sub_key(p) ==
    /\ pc[p] = "ack_called"
    /\ \E other \in SubKeys \ {in_sub_key[p]} :
          LET rows == acknowledge_delivery_rows(store, other, in_msg_id_list[p])
          IN /\ rows \cap LockedByOthers(p) = {}
             /\ writes' = [writes EXCEPT ![p] = acknowledge_delivery_writes(store, rows)]
    /\ pc' = [pc EXCEPT ![p] = "ack_updated"]
    /\ UNCHANGED <<store, clock, in_sub_key, in_batch_size, in_msg_id_list, now,
                   msg_list, payload, outcome, fetched, ackDone, call_time,
                   overlap>>
    /\ UNCHANGED <<cvars, lvars, svars>>

\* acknowledge_delivery returns: its UPDATE waits for the rows it changes to
\* be free of other transactions' locks (a call that is still waiting has had
\* no effect yet). The timestamp passed along goes into no field of a
\* StoredMessage.
AckUpdate(p) ==
    /\ pc[p] = "ack_called"
    /\ LET rows == acknowledge_delivery_rows(store, in_sub_key[p], in_msg_id_list[p])
       IN /\ rows \cap LockedByOthers(p) = {}
          /\ writes' = [writes EXCEPT ![p] = acknowledge_delivery_writes(store, rows)]
    /\ pc' = [pc EXCEPT ![p] = "ack_updated"]
    /\ UNCHANGED <<store, clock, in_sub_key, in_batch_size, in_msg_id_list, now,
                   msg_list, payload, outcome, fetched, ackDone, call_time,
                   overlap>>
    /\ UNCHANGED <<cvars, lvars, svars>>

\* Fault: the handler returns without session.commit(); closing the session
\* rolls the transaction back.
AckCommit_not_committed(p) ==
    /\ pc[p] = "ack_updated"
    /\ ackDone' = ackDone \cup LockedBy(p)
    /\ writes' = [writes EXCEPT ![p] = NoWrites]
    /\ Return(p, "ok")
    /\ UNCHANGED <<store, clock, fetched, overlap>>
    /\ UNCHANGED <<cvars, lvars, svars>>

\* session.commit() and the return to the caller.
AckCommit(p) ==
    /\ pc[p] = "ack_updated"
    /\ store' = Committed(store, writes[p])
    /\ ackDone' = ackDone \cup LockedBy(p)
    /\ writes' = [writes EXCEPT ![p] = NoWrites]
    /\ Return(p, "ok")
    /\ UNCHANGED <<clock, fetched, overlap>>
    /\ UNCHANGED <<cvars, lvars, svars>>

\* Fault: the session runs in autocommit mode, so the rows the UPDATE reached
\* before the failure (here: the first one) stay acknowledged.
AckFail_autocommit(p) ==
    /\ pc[p] \in {"ack_called", "ack_updated"}
    /\ store' = [m \in Msgs |->
                   IF m \in LockedBy(p) /\ \A o \in LockedBy(p) : m <= o
                   THEN writes[p][m] ELSE store[m]]
    /\ writes' = [writes EXCEPT ![p] = NoWrites]
    /\ Return(p, "error")
    /\ UNCHANGED <<clock, fetched, ackDone, overlap>>
    /\ UNCHANGED <<cvars, lvars, svars>>

\* An exception inside the "with closing(session)" block (the UPDATE fails,
\* its wait for a lock included, or the commit fails): no commit.
AckFail(p) ==
    /\ pc[p] \in {"ack_called", "ack_updated"}
    /\ writes' = [writes EXCEPT ![p] = NoWrites]
    /\ Return(p, "error")
    /\ UNCHANGED <<store, clock, fetched, ackDone, overlap>>
    /\ UNCHANGED <<cvars, lvars, svars>>

Next ==
    \/ Tick
    \/ \E p \in Procs : GetCall(p)
    \/ \E p \in Procs : GetSelect(p)
    \/ \E p \in Procs : GetBuild(p)
    \/ \E p \in Procs : GetCommit(p)
    \/ \E p \in Procs : GetFail(p)
    \/ \E p \in Procs : AckSkip(p)
    \/ \E p \in Procs : AckCall(p)
    \/ \E p \in Procs : AckUpdate(p)
    \/ \E p \in Procs : AckCommit(p)
    \/ \E p \in Procs : AckFail(p)

Spec == Init /\ [][Next]_vars

\* A handler that has got its rows keeps running: it builds the payload and
\* comes to its commit, unless an exception takes it out of the block first.
Fairness ==
    \A p \in Procs :
        /\ WF_vars(GetBuild(p))
        /\ WF_vars(GetCommit(p))

LiveSpec == Spec /\ Fairness

TypeOK ==
    /\ clock \in 0 .. MaxTime
    /\ \A p \in Procs : pc[p] \in {"idle", "get_called", "get_selected", "get_built",
                                   "ack_called", "ack_updated"}
    /\ \A m \in Msgs : store[m].delivery_count \in 0 .. MaxDelivery

\* ====================================================================
\* The connector container
\* ====================================================================
\* WebSphereMQConnection(**config): a connection object that is not connected.
WebSphereMQConnection(id) == [id |-> id, state |-> "unconnected"]

\* conn.connect() returning: the link to the queue manager is up.
connect(c) == [c EXCEPT !.state = "connected"]

\* self.connections[name] = c
Registered(reg, name, c) ==
    [n \in DOMAIN reg \cup {name} |-> IF n = name THEN c ELSE reg[n]]

\* Fault: the lock taken by acquire() and released by release() at the end
\* of the method's body, without "with": an exception skips the release.
ContainerReturn_release_skipped_on_exception(t, how) ==
    /\ lock' = IF how = "ok" THEN "none" ELSE lock
    /\ cpc' = [cpc EXCEPT ![t] = "idle"]
    /\ config' = [config EXCEPT ![t] = NoConfig]
    /\ conn' = [conn EXCEPT ![t] = NoConn]
    /\ coutcome' = [coutcome EXCEPT ![t] = how]

\* Leaving "with self.lock:" and the method, by return or by an exception.
ContainerReturn(t, how) ==
    /\ lock' = "none"
    /\ cpc' = [cpc EXCEPT ![t] = "idle"]
    /\ config' = [config EXCEPT ![t] = NoConfig]
    /\ conn' = [conn EXCEPT ![t] = NoConn]
    /\ coutcome' = [coutcome EXCEPT ![t] = how]

\* ---------------------------------------------------------- add_conn_def
\* The threads that have called add_conn_def and wait for the lock. Each will
\* construct a connection object; the callers make no more calls than the
\* model's bound on these objects allows.
AddConnDefWaiting == {u \in Threads : cpc[u] = "add_conn_def_called"}

\* A thread calls add_conn_def(config) and comes to "with self.lock:".
AddConnDefCall(t) ==
    /\ cpc[t] = "idle"
    /\ conn_count + Cardinality(AddConnDefWaiting) < MaxConns
    /\ \E n \in ConnNames :
          config' = [config EXCEPT ![t] = [name |-> n, connection_name |-> ""]]
    /\ cpc' = [cpc EXCEPT ![t] = "add_conn_def_called"]
    /\ coutcome' = [coutcome EXCEPT ![t] = "none"]
    /\ UNCHANGED <<connections, lock, conn, conn_count, listeners, environ,
                   response, last_cmd>>
    /\ UNCHANGED <<qvars, lvars, svars>>

\* Fault: the method body runs without "with self.lock:".
AddConnDefLock_no_lock(t) ==
    /\ cpc[t] = "add_conn_def_called"
    /\ conn_count' = conn_count + 1
    /\ conn' = [conn EXCEPT ![t] = WebSphereMQConnection(conn_count + 1)]
    /\ cpc' = [cpc EXCEPT ![t] = "add_conn_def_locked"]
    /\ UNCHANGED <<connections, lock, config, coutcome, listeners, environ,
                   response, last_cmd>>
    /\ UNCHANGED <<qvars, lvars, svars>>

\* The lock is acquired once no other thread holds it, and the connection
\* object is constructed.
AddConnDefLock(t) ==
    /\ cpc[t] = "add_conn_def_called"
    /\ lock = "none"
    /\ lock' = t
    /\ conn_count' = conn_count + 1
    /\ conn' = [conn EXCEPT ![t] = WebSphereMQConnection(conn_count + 1)]
    /\ cpc' = [cpc EXCEPT ![t] = "add_conn_def_locked"]
    /\ UNCHANGED <<connections, config, coutcome, listeners, environ,
                   response, last_cmd>>
    /\ UNCHANGED <<qvars, lvars, svars>>

\* conn.connect() returns.
AddConnDefConnect(t) ==
    /\ cpc[t] = "add_conn_def_locked"
    /\ conn' = [conn EXCEPT ![t] = connect(conn[t])]
    /\ cpc' = [cpc EXCEPT ![t] = "add_conn_def_connected"]
    /\ UNCHANGED <<connections, lock, config, coutcome, conn_count, listeners,
                   environ, response, last_cmd>>
    /\ UNCHANGED <<qvars, lvars, svars>>

\* Fault: the connection is put into the registry before connect() is called,
\* so it stays there when connect() raises.
AddConnDefConnectFails_registered_first(t) ==
    /\ cpc[t] = "add_conn_def_locked"
    /\ connections' = Registered(connections, config[t].name, conn[t])
    /\ last_cmd' = [op |-> "add_conn_def_failed", name |-> config[t].name,
                    before |-> connections]
    /\ ContainerReturn(t, "ConnectionError")
    /\ UNCHANGED <<conn_count, listeners, environ, response>>
    /\ UNCHANGED <<qvars, lvars, svars>>

\* conn.connect() raises: the exception leaves the "with" block, which
\* releases the lock, and reaches the caller.
AddConnDefConnectFails(t) ==
    /\ cpc[t] = "add_conn_def_locked"
    /\ last_cmd' = [op |-> "add_conn_def_failed", name |-> config[t].name,
                    before |-> connections]
    /\ ContainerReturn(t, "ConnectionError")
    /\ UNCHANGED <<connections, conn_count, listeners, environ, response>>
    /\ UNCHANGED <<qvars, lvars, svars>>

\* self.connections[config.name] = conn, then the lock is released.
AddConnDefRegister(t) ==
    /\ cpc[t] = "add_conn_def_connected"
    /\ connections' = Registered(connections, config[t].name, conn[t])
    /\ last_cmd' = [op |-> "add_conn_def", name |-> config[t].name,
                    before |-> connections]
    /\ ContainerReturn(t, "ok")
    /\ UNCHANGED <<conn_count, listeners, environ, response>>
    /\ UNCHANGED <<qvars, lvars, svars>>

\* ====================================================================
\* ----------------------------------------------------------- add_channel
\* A thread calls add_channel(config) and comes to "with self.lock:".
AddChannelCall(t) ==
    /\ cpc[t] = "idle"
    /\ \E ch \in ChannelNames, n \in ConnNames :
          config' = [config EXCEPT ![t] = [name |-> ch, connection_name |-> n]]
    /\ cpc' = [cpc EXCEPT ![t] = "add_channel_called"]
    /\ coutcome' = [coutcome EXCEPT ![t] = "none"]
    /\ UNCHANGED <<connections, lock, conn, conn_count, listeners, environ,
                   response, last_cmd>>
    /\ UNCHANGED <<qvars, lvars, svars>>

\* The lock is acquired once no other thread holds it.
AddChannelLock(t) ==
    /\ cpc[t] = "add_channel_called"
    /\ lock = "none"
    /\ lock' = t
    /\ cpc' = [cpc EXCEPT ![t] = "add_channel_locked"]
    /\ UNCHANGED <<connections, config, conn, coutcome, conn_count, listeners,
                   environ, response, last_cmd>>
    /\ UNCHANGED <<qvars, lvars, svars>>

\* task = WebSphereMQTask(conn, ...): the name conn is bound neither in the
\* method nor in the module, so evaluating the argument raises NameError
\* before a task is constructed; the exception leaves the "with" block, which
\* releases the lock. config.connection_name is not read and no listener is
\* started.
AddChannelNameError(t) ==
    /\ cpc[t] = "add_channel_locked"
    /\ last_cmd' = [op |-> "add_channel_failed", name |-> config[t].name,
                    before |-> connections]
    /\ ContainerReturn(t, "NameError")
    /\ UNCHANGED <<connections, conn_count, listeners, environ, response>>
    /\ UNCHANGED <<qvars, lvars, svars>>

\* ------------------------------------------- _on_DEFINITION_JMS_WMQ_DELETE
\* The handler of a definition's deletion: its body is "pass".
OnDefinitionDelete(t) ==
    /\ cpc[t] = "idle"
    /\ \E n \in ConnNames :
          last_cmd' = [op |-> "delete", name |-> n, before |-> connections]
    /\ coutcome' = [coutcome EXCEPT ![t] = "ok"]
    /\ UNCHANGED <<connections, lock, cpc, config, conn, conn_count, listeners,
                   environ, response>>
    /\ UNCHANGED <<qvars, lvars, svars>>

\* ------------------------------------------------------- the control API
_http_200 == "200 OK"
_http_400 == "400 Bad Request"
_http_403 == "403 Forbidden"
_http_500 == "500 Internal Server Error"

\* What a request can look like: CONTENT_LENGTH is missing from environ, is
\* empty, is no number, or is the length of the body; the body is a JSON
\* object with an "action" key, a JSON object without one, or no JSON; the
\* Authorization header carries the expected username and password, carries
\* other ones, or is missing. (The body is read only when CONTENT_LENGTH is
\* its length, so the other requests are taken with one body.)
Environs ==
    {e \in [CONTENT_LENGTH : {"missing", "", "abc", "length"},
            body : {"json_with_action", "json_without_action", "not_json"},
            HTTP_AUTHORIZATION : {"expected", "other", "missing"}] :
        e.CONTENT_LENGTH # "length" => e.body = "json_with_action"}

\* check_credentials: its first statement is "return True"; the comparison
\* with self.username and self.password that follows it is never reached.
check_credentials(auth) == TRUE

\* handle_http_request: loads() raises ValueError for a body that is no JSON,
\* msg.action raises AttributeError when the key is missing; else b'OK'.
handle_http_request(msg) ==
    IF msg = "not_json" THEN [raised |-> "ValueError", value |-> ""]
    ELSE IF msg = "json_without_action" THEN [raised |-> "AttributeError", value |-> ""]
    ELSE [raised |-> "", value |-> "OK"]

\* The body of on_wsgi_request's "try": what it assigned, or what it raised.
\* status is assigned (line 298) before handle_http_request is called, so it
\* is bound to _http_200 when the call raises.
RequestTry(e) ==
    IF e.CONTENT_LENGTH = "missing"
    THEN [NoResponse EXCEPT !.raised = "KeyError"]
    ELSE IF e.CONTENT_LENGTH = ""
    THEN [NoResponse EXCEPT !.status = _http_400, !.response = "Missing content",
                            !.content_type = "text/plain"]
    ELSE IF e.CONTENT_LENGTH = "abc"
    THEN [NoResponse EXCEPT !.raised = "ValueError"]
    ELSE IF check_credentials(e.HTTP_AUTHORIZATION)
    THEN LET r == handle_http_request(e.body)
         IN IF r.raised # ""
            THEN [NoResponse EXCEPT !.status = _http_200, !.raised = r.raised,
                                    !.dispatched = TRUE]
            ELSE [NoResponse EXCEPT !.status = _http_200, !.response = r.value,
                                    !.content_type = "text/json",
                                    !.dispatched = TRUE]
    ELSE [NoResponse EXCEPT !.status = _http_403,
                            !.response = "You are not allowed to access this resource",
                            !.content_type = "text/plain"]

\* Fault: the handler catches ValueError only.
IsException_value_error_only(exc) == exc = "ValueError"

\* except Exception: KeyError, ValueError and AttributeError all derive from it.
IsException(exc) == exc \in {"KeyError", "ValueError", "AttributeError"}

\* Mutant: the "except" clause without its assignment to status, which stays
\* what the "try" body left: _http_200 if handle_http_request raised, unbound
\* if the exception came earlier.
RequestExcept_status_kept(tried) ==
    [tried EXCEPT !.response = "Internal server error",
                  !.content_type = "text/plain", !.raised = ""]

\* The "except Exception" clause, lines 306-310.
RequestExcept(tried) ==
    [tried EXCEPT !.status = _http_500, !.response = "Internal server error",
                  !.content_type = "text/plain", !.raised = ""]

\* The "finally" clause, lines 311-315: builds the headers, calls
\* start_response and returns the one-element list. With an exception still
\* in flight, or with content_type or status left unbound, reading the
\* unbound name raises in turn: start_response is not called and nothing is
\* returned.
RequestFinally(r) ==
    IF r.raised = "" /\ r.content_type # "" /\ r.status # ""
    THEN [r EXCEPT !.start_response_calls = 1, !.body = <<r.response>>]
    ELSE [r EXCEPT !.raised = "UnboundLocalError"]

\* on_wsgi_request: the "try" body, the "except Exception" clause for what
\* it raised, and the "finally" clause.
on_wsgi_request(e) ==
    LET tried  == RequestTry(e)
        caught == IF tried.raised # "" /\ IsException(tried.raised)
                  THEN RequestExcept(tried)
                  ELSE tried
    IN RequestFinally(caught)

\* The server of run() takes a request and calls on_wsgi_request with it.
OnWsgiRequest ==
    /\ \E e \in Environs :
          /\ environ' = e
          /\ response' = on_wsgi_request(e)
    /\ UNCHANGED <<connections, lock, cpc, config, conn, coutcome, conn_count,
                   listeners, last_cmd>>
    /\ UNCHANGED <<qvars, lvars, svars>>

\* The queue at rest: its records as stored, no service invocation running.
QueueAtRest ==
    /\ store = [m \in Msgs |-> [sub_key |-> "sub-42", expiration_time |-> MaxExp,
                                status |-> "pending", delivery_count |-> 0]]
    /\ QueueIdle

ContainerInit == ContainerStart /\ QueueAtRest /\ ListenerAtRest /\ SSOAtRest

ContainerNext ==
    \/ \E t \in Threads : AddConnDefCall(t)
    \/ \E t \in Threads : AddConnDefLock(t)
    \/ \E t \in Threads : AddConnDefConnect(t)
    \/ \E t \in Threads : AddConnDefConnectFails(t)
    \/ \E t \in Threads : AddConnDefRegister(t)
    \/ \E t \in Threads : AddChannelCall(t)
    \/ \E t \in Threads : AddChannelLock(t)
    \/ \E t \in Threads : AddChannelNameError(t)
    \/ \E t \in Threads : OnDefinitionDelete(t)
    \/ OnWsgiRequest

ContainerSpec == ContainerInit /\ [][ContainerNext]_vars

\* A thread inside "with self.lock:" runs on: connect() returns or raises,
\* the registration and the failing statement of add_channel are executed.
\* A thread blocked in the lock's acquire() takes the lock if it stays free;
\* the RLock does not say which of several waiting threads gets it, so a
\* thread may wait for ever while others take the lock in turn.
ContainerFairness ==
    \A t \in Threads :
        /\ WF_vars(AddConnDefConnect(t) \/ AddConnDefConnectFails(t))
        /\ WF_vars(AddConnDefRegister(t))
        /\ WF_vars(AddChannelNameError(t))
        /\ WF_vars(AddConnDefLock(t))
        /\ WF_vars(AddChannelLock(t))

ContainerLiveSpec == ContainerSpec /\ ContainerFairness

ContainerTypeOK ==
    /\ lock \in Threads \cup {"none"}
    /\ conn_count \in 0 .. MaxConns
    /\ DOMAIN connections \subseteq ConnNames
    /\ \A t \in Threads :
          cpc[t] \in {"idle", "add_conn_def_called", "add_conn_def_locked",
                      "add_conn_def_connected", "add_channel_called",
                      "add_channel_locked"}

\* ====================================================================
\* The listener task (WebSphereMQTask) and its pool of handler threads
\* ====================================================================
\* ThreadPool(5): five worker threads. The pool's request queue is created
\* with the library's default size, which puts no limit on it.
POOL_SIZE == 5

\* What self.logger is when __init__ reads it. The class defines no logger and
\* __init__ assigns none, so it is absent unless a subclass or the caller has
\* put one on the class; a logger has DEBUG enabled or has not.
Loggers == {"absent", "debug_enabled", "debug_disabled"}

\* The conn argument of __init__: a connection that add_conn_def connected.
TaskConn == connect(WebSphereMQConnection(1))

\* self.logger.isEnabledFor(DEBUG), line 90, raises AttributeError when the
\* object has no attribute logger.
TaskInitRaises(logger) == logger = "absent"

\* WebSphereMQTask.__init__, lines 85-90: conn, on_message_callback,
\* handlers_pool and keep_running are assigned, then has_debug is, from
\* self.logger. If reading self.logger raises, has_debug stays unassigned and
\* the constructor returns no object to its caller.
TaskInit ==
    /\ lpc = "no_task"
    /\ task_conn' = TaskConn
    /\ keep_running' = <<TRUE>>
    /\ \E logger \in Loggers :
          IF TaskInitRaises(logger)
          THEN /\ has_debug' = has_debug
               /\ lpc' = "init_raised_AttributeError"
          ELSE /\ has_debug' = <<logger = "debug_enabled">>
               /\ lpc' = "not_started"
    /\ UNCHANGED <<calls_since_stop, message, requests_queue, in_work,
                   results_queue, workRequests, received, submitted, invoked>>
    /\ UNCHANGED <<qvars, cvars, svars>>

\* Fault: the loop is "while True:".
LoopTest_while_true(flag) == TRUE

\* while self.keep_running:
LoopTest(flag) == flag

\* Fault: the pool's request queue is a stack.
putRequest_lifo(q, m) == <<m>> \o q

\* handlers_pool.putRequest(work_request): the request goes to the end of the
\* pool's request queue; with no limit on the queue the call never blocks.
putRequest(q, m) == Append(q, m)

\* listen_for_messages: _impl is started in a thread of its own.
ListenForMessages ==
    /\ lpc = "not_started"
    /\ lpc' = "loop"
    /\ UNCHANGED <<calls_since_stop, task_conn, keep_running, has_debug, message, requests_queue,
                   in_work, results_queue, workRequests, received, submitted,
                   invoked>>
    /\ UNCHANGED <<qvars, cvars, svars>>

\* The owner of the task clears the flag. (A constructor that raised has
\* handed no task to anyone.)
StopListener ==
    /\ lpc \notin {"no_task", "init_raised_AttributeError"}
    /\ keep_running = <<TRUE>>
    /\ keep_running' = <<FALSE>>
    /\ UNCHANGED <<calls_since_stop, task_conn, has_debug, lpc, message, requests_queue, in_work,
                   results_queue, workRequests, received, submitted, invoked>>
    /\ UNCHANGED <<qvars, cvars, svars>>

\* The test of the while loop, line 108: into the loop's body if the flag
\* reads True, out of _impl otherwise.
ListenerLoopTest ==
    /\ lpc = "loop"
    /\ lpc' = IF LoopTest(keep_running[1]) THEN "loop_body" ELSE "exited"
    /\ UNCHANGED <<calls_since_stop, task_conn, keep_running, has_debug, message,
                   requests_queue, in_work, results_queue, workRequests,
                   received, submitted, invoked>>
    /\ UNCHANGED <<qvars, cvars, svars>>

\* self.conn.receive(queue_name, 1000) is called, line 110. The flag is not
\* read again: it may have been cleared since the loop's test.
ReceiveCall ==
    /\ lpc = "loop_body"
    /\ lpc' = "receiving"
    /\ calls_since_stop' = IF keep_running = <<FALSE>>
                           THEN calls_since_stop + 1
                           ELSE calls_since_stop
    /\ UNCHANGED <<task_conn, keep_running, has_debug, message, requests_queue,
                   in_work, results_queue, workRequests, received, submitted,
                   invoked>>
    /\ UNCHANGED <<qvars, cvars, svars>>

\* if self.has_debug: self.logger.debug(... % str(message).decode('utf-8')),
\* lines 111-112: with debug logging, a message whose str() is not UTF-8 (or
\* that str() cannot encode) raises UnicodeDecodeError (UnicodeEncodeError).
DebugLogRaises(debug, decodable) == debug /\ ~decodable

\* self.conn.receive(queue_name, 1000) returns the next message, whose text
\* can be decoded or cannot. If logging it raises, the exception is one that
\* neither "except" clause catches: it leaves _impl and ends the thread, and
\* the message is not put to the pool.
ReceiveReturns ==
    /\ lpc = "receiving"
    /\ Len(received) < MaxMsgsReceived
    /\ message' = Len(received) + 1
    /\ received' = Append(received, Len(received) + 1)
    /\ \E decodable \in BOOLEAN :
          lpc' = IF DebugLogRaises(has_debug[1], decodable)
                 THEN "raised_UnicodeError"
                 ELSE "got_message"
    /\ UNCHANGED <<calls_since_stop, task_conn, keep_running, has_debug, requests_queue, in_work,
                   results_queue, workRequests, submitted, invoked>>
    /\ UNCHANGED <<qvars, cvars, svars>>

\* receive raises NoMessageAvailableException after its timeout. Without debug
\* logging the loop goes on; with it, the handler calls
\* _get_destination_info, which reads self.destination, an attribute the class
\* never sets: the AttributeError leaves _impl and ends the thread.
ReceiveNoMessage ==
    /\ lpc = "receiving"
    /\ lpc' = IF has_debug[1] THEN "raised_AttributeError" ELSE "loop"
    /\ UNCHANGED <<calls_since_stop, task_conn, keep_running, has_debug, message, requests_queue,
                   in_work, results_queue, workRequests, received, submitted,
                   invoked>>
    /\ UNCHANGED <<qvars, cvars, svars>>

\* receive raises WebSphereMQJMSException: the handler logs the completion and
\* reason codes and re-raises, which ends the thread. Neither the connection
\* nor keep_running is touched.
ReceiveFault ==
    /\ lpc = "receiving"
    /\ lpc' = "raised_WebSphereMQJMSException"
    /\ UNCHANGED <<calls_since_stop, task_conn, keep_running, has_debug, message, requests_queue,
                   in_work, results_queue, workRequests, received, submitted,
                   invoked>>
    /\ UNCHANGED <<qvars, cvars, svars>>

\* WorkRequest(self.on_message_callback, [message]) is put to the pool.
SubmitRequest ==
    /\ lpc = "got_message"
    /\ requests_queue' = putRequest(requests_queue, message)
    /\ workRequests' = workRequests \cup {message}
    /\ submitted' = Append(submitted, message)
    \* message is not read again
    /\ message' = 0
    /\ lpc' = "submitted"
    /\ UNCHANGED <<calls_since_stop, task_conn, keep_running, has_debug, in_work, results_queue,
                   received, invoked>>
    /\ UNCHANGED <<qvars, cvars, svars>>

\* handlers_pool.poll(): the finished requests are taken off the results
\* queue and forgotten; it does not wait, and NoResultsPending is passed over.
PollResults ==
    /\ lpc = "submitted"
    /\ workRequests' = workRequests \ results_queue
    /\ results_queue' = {}
    /\ lpc' = "loop"
    /\ UNCHANGED <<calls_since_stop, task_conn, keep_running, has_debug, message, requests_queue,
                   in_work, received, submitted, invoked>>
    /\ UNCHANGED <<qvars, cvars, svars>>

\* A worker thread that is free takes the oldest request of the queue.
WorkerTakes ==
    /\ requests_queue # <<>>
    /\ Cardinality(in_work) < POOL_SIZE
    /\ in_work' = in_work \cup {Head(requests_queue)}
    /\ requests_queue' = Tail(requests_queue)
    /\ UNCHANGED <<calls_since_stop, task_conn, keep_running, has_debug, lpc, message,
                   results_queue, workRequests, received, submitted, invoked>>
    /\ UNCHANGED <<qvars, cvars, svars>>

\* The worker calls on_message_callback (on_mq_message_received, which logs
\* the message) and puts the request to the results queue.
WorkerCallsBack ==
    /\ \E m \in in_work :
          /\ invoked' = [invoked EXCEPT ![m] = @ + 1]
          /\ results_queue' = results_queue \cup {m}
          /\ in_work' = in_work \ {m}
    /\ UNCHANGED <<calls_since_stop, task_conn, keep_running, has_debug, lpc, message,
                   requests_queue, workRequests, received, submitted>>
    /\ UNCHANGED <<qvars, cvars, svars>>

ListenerInit ==
    /\ ListenerAtRest
    /\ QueueAtRest
    /\ ContainerStart
    /\ SSOAtRest

ListenerNext ==
    \/ TaskInit
    \/ ListenForMessages
    \/ StopListener
    \/ ListenerLoopTest
    \/ ReceiveCall
    \/ ReceiveReturns
    \/ ReceiveNoMessage
    \/ ReceiveFault
    \/ SubmitRequest
    \/ PollResults
    \/ WorkerTakes
    \/ WorkerCallsBack

ListenerSpec == ListenerInit /\ [][ListenerNext]_vars

\* The listener thread keeps running while it is in _impl, and a receive call
\* returns or raises when its timeout is over at the latest.
ListenerFairness ==
    /\ WF_vars(ListenerLoopTest)
    /\ WF_vars(ReceiveCall)
    /\ WF_vars(ReceiveReturns \/ ReceiveNoMessage \/ ReceiveFault)
    /\ WF_vars(SubmitRequest)
    /\ WF_vars(PollResults)

ListenerLiveSpec == ListenerSpec /\ ListenerFairness

ListenerTypeOK ==
    /\ lpc \in {"no_task", "init_raised_AttributeError", "not_started", "loop",
                "loop_body", "receiving", "got_message", "submitted", "exited",
                "raised_UnicodeError", "raised_AttributeError",
                "raised_WebSphereMQJMSException"}
    /\ Len(received) <= MaxMsgsReceived
    /\ Cardinality(in_work) <= POOL_SIZE
    /\ keep_running \in {<<>>, <<TRUE>>, <<FALSE>>}
    /\ has_debug \in {<<>>, <<TRUE>>, <<FALSE>>}
    /\ has_debug = <<>> <=> lpc \in {"no_task", "init_raised_AttributeError"}
    /\ keep_running = <<>> <=> lpc = "no_task"

\* ---------------------------------------------------------------------------
\* SSO Logout (sso/user.py, Logout._handle_sso)
\* ---------------------------------------------------------------------------

\* User session tokens the SSO backend may hold, and one it never issued.
USTs == {"ust1", "ust2", "ust3"}

UnknownUST == "ust-unknown"

UstInputs == USTs \cup {UnknownUST}

Apps == {"app1", "app2"}

\* ctx.input.remote_addr: absent, or the address of the caller.
RemoteAddrs == {"", "10.0.0.1"}

LogoutInputs == [ust : UstInputs, current_app : Apps, remote_addr : RemoteAddrs]

\* zato.sso.status_code.ok, as assigned at user.py line 66.
status_code_ok == "ok"

\* self.sso.user.logout(ust, current_app, remote_addr), line 62, seen from the
\* caller: it either returns, and the session of the UST is gone, or raises
\* and changes nothing. It raises for a UST that names no session; `fault`
\* stands for any other exception of the backend.
sso_user_logout(s, input, fault) ==
    IF input.ust \in s /\ ~fault
    THEN [raised |-> FALSE, sessions |-> s \ {input.ust}]
    ELSE [raised |-> TRUE, sessions |-> s]

\* Mutant: the assignment under `else:` rather than `finally:`; a request
\* whose logout raised keeps the unset status of a fresh response.
ResponseStatus_on_success_only(raised) ==
    IF raised THEN "" ELSE status_code_ok

\* self.response.payload.status after try/except/finally, lines 61-66: the
\* except clause swallows the exception (logger.warn) and the finally clause
\* assigns status_code.ok on both paths.
ResponseStatus(raised) ==
    status_code_ok

\* Logout._handle_sso(ctx), lines 57-66.
_handle_sso(s, input, fault) ==
    LET out == sso_user_logout(s, input, fault)
    IN  [status   |-> ResponseStatus(out.raised),
         raised   |-> out.raised,
         sessions |-> out.sessions]

\* self.wsgi_environ of a Login request: the address and the agent the HTTP
\* request came with.
wsgi_environ == [remote_addr |-> "192.168.0.9", HTTP_USER_AGENT |-> "Mozilla"]

UserAgents == {"", "curl"}

\* Login._handle_sso(ctx), lines 32-46: remote_addr and user_agent are taken
\* from the input if it has them and from the WSGI environment otherwise;
\* self.sso.user.login is called through _call_sso_api, and if it returns a
\* session, that session's UST goes to the response. The backend either
\* opens a session under a UST not in use and returns it (`new` is that
\* UST), or lets no one in (`new` is ""): what it decides by is not part of
\* the sources at hand.
Login ==
    \E addr \in RemoteAddrs, agent \in UserAgents,
       new \in (USTs \ sessions) \cup {""} :
        /\ sessions' = IF new # "" THEN sessions \cup {new} ELSE sessions
        /\ login_out' =
              [remote_addr |-> IF addr # "" THEN addr ELSE wsgi_environ.remote_addr,
               user_agent  |-> IF agent # "" THEN agent
                               ELSE wsgi_environ.HTTP_USER_AGENT,
               ust         |-> new]
        /\ UNCHANGED <<sso_input, sso_status, sso_raised>>
        /\ UNCHANGED <<qvars, cvars, lvars>>

\* One Logout request, served whole.
Logout ==
    \E input \in LogoutInputs, fault \in BOOLEAN :
        LET r == _handle_sso(sessions, input, fault)
        IN  /\ sso_input' = input
            /\ sessions' = r.sessions
            /\ sso_status' = r.status
            /\ sso_raised' = r.raised
            /\ UNCHANGED login_out
            /\ UNCHANGED <<qvars, cvars, lvars>>

SSOInit ==
    /\ SSOAtRest
    /\ QueueAtRest
    /\ ContainerStart
    /\ ListenerAtRest

SSONext ==
    \/ Login
    \/ Logout

SSOSpec == SSOInit /\ [][SSONext]_vars

SSOTypeOK ==
    /\ sessions \subseteq USTs
    /\ sso_input \in {NoInput} \cup LogoutInputs
    /\ sso_status \in {"", status_code_ok}
    /\ sso_raised \in BOOLEAN
    /\ login_out.ust \in USTs \cup {""}

\* ====================================================================
\* Properties of the delivery queue
\* ====================================================================
FetchInFlight(p) == pc[p] \in {"get_selected", "get_built"}

Returned(p) == MsgIdsOf(msg_list[p])

\* The batch size the caller asked for: the one supplied, else the default.
RequestedBatchSize(b) == IF b = <<>> THEN GET_BATCH_SIZE ELSE b[1]

\* Rows of sub_key that no completed acknowledgment covers and that have not
\* expired at time t.
PendingFor(sub_key, t) ==
    {m \in Msgs : /\ store[m].sub_key = sub_key
                  /\ m \notin ackDone
                  /\ store[m].expiration_time > t}

\* The step in which p's get_messages call returns.
SelectStep(p) == pc[p] = "get_called" /\ pc'[p] = "get_selected"

\* --------------------------------------------------------------------
\* C1 as stated: any two GetMessages calls for the same sub_key that overlap in
\* time (the second starts before the first commits) return disjoint sets of
\* msg_id. Refuted: a call that starts while another holds the rows waits for
\* the lock and returns the very same messages once the other has committed.
C1_OverlappingCallsDisjoint ==
    \A p \in Procs :
        FetchInFlight(p) =>
            /\ Returned(p) \cap overlap[p] = {}
            /\ \A q \in Procs \ {p} :
                  FetchInFlight(q) /\ in_sub_key[q] = in_sub_key[p]
                      => Returned(p) \cap Returned(q) = {}

\* C1 as amended: two GetMessages calls for the same sub_key that hold their
\* selected rows at the same time (each between get_messages returning and its
\* own commit) return disjoint sets of msg_id, and a message whose row is
\* locked by an in-flight fetch is in no other in-flight fetch's result.
C1_DisjointWhileLocked ==
    \A p, q \in Procs :
        (p # q /\ FetchInFlight(p) /\ FetchInFlight(q)) =>
            /\ Returned(q) \cap LockedBy(p) = {}
            /\ in_sub_key[p] = in_sub_key[q] => Returned(p) \cap Returned(q) = {}

\* Two fetches for one sub_key are in flight together, each with messages.
C1_Witness ==
    \E p, q \in Procs :
        /\ p # q /\ FetchInFlight(p) /\ FetchInFlight(q)
        /\ in_sub_key[p] = in_sub_key[q]
        /\ Returned(p) # {} /\ Returned(q) # {}

\* --------------------------------------------------------------------
\* C2: acknowledged is terminal. A message that a completed
\* AcknowledgeDelivery confirmed stays acknowledged in the store and is in no
\* fetch result from then on.
C2_AcknowledgedIsTerminal ==
    \A m \in ackDone :
        /\ store[m].status = "acknowledged"
        /\ \A p \in Procs : FetchInFlight(p) => m \notin Returned(p)

\* A fetch for the subscriber of an acknowledged, still unexpired message that
\* had been delivered before is in flight.
C2_Witness ==
    \E m \in ackDone, p \in Procs :
        /\ pc[p] = "get_selected"
        /\ in_sub_key[p] = store[m].sub_key
        /\ store[m].expiration_time > clock
        /\ fetched[m] >= 1

\* --------------------------------------------------------------------
\* C3: when the pending, unexpired messages of a subscriber number at most the
\* requested batch size, GetMessages returns exactly those: all of them, less
\* the ones a completed AcknowledgeDelivery confirmed.
C3_ReturnsPendingMinusAcknowledged ==
    [][\A p \in Procs :
          (/\ SelectStep(p)
           /\ Cardinality(PendingFor(in_sub_key[p], now[p]))
                 <= RequestedBatchSize(in_batch_size[p]))
          => MsgIdsOf(msg_list'[p]) = PendingFor(in_sub_key[p], now[p])]_vars

\* Messages were fetched together, one was acknowledged, and the next fetch
\* has returned the other.
C3_Witness ==
    \E p \in Procs, m \in ackDone :
        /\ pc[p] = "get_selected"
        /\ in_sub_key[p] = store[m].sub_key
        /\ fetched[m] >= 1
        /\ Returned(p) # {}
        /\ \A r \in Returned(p) : fetched[r] >= 1

\* --------------------------------------------------------------------
\* C4: the stored delivery_count of every message equals the number of times a
\* GetMessages call returned it: each successful call adds exactly 1 for each
\* record it returns and nothing for any other record.
C4_DeliveryCountCountsFetches ==
    \A m \in Msgs : store[m].delivery_count = fetched[m]

\* A message was fetched twice without being acknowledged, another one never.
C4_Witness ==
    \E m, o \in Msgs :
        /\ fetched[m] = 2 /\ store[m].status = "pending"
        /\ fetched[o] = 0

\* --------------------------------------------------------------------
\* C5: AcknowledgeDelivery is idempotent. A call all of whose rows have been
\* confirmed by an earlier call (in particular, the same call repeated)
\* completes and leaves the store as it was.
C5_AcknowledgeIdempotent ==
    [][\A p \in Procs :
          (/\ pc[p] = "ack_updated"
           /\ outcome'[p] = "ok"
           /\ acknowledge_delivery_rows(store, in_sub_key[p], in_msg_id_list[p])
                 \subseteq ackDone)
          => store' = store]_vars

\* A call that names rows of its subscriber, all acknowledged before, is about
\* to commit.
C5_Witness ==
    \E p \in Procs :
        /\ pc[p] = "ack_updated"
        /\ LockedBy(p) # {}
        /\ LockedBy(p) \subseteq ackDone

\* --------------------------------------------------------------------
\* C6: AcknowledgeDelivery(sub_key, ids) locks and changes only rows whose
\* sub_key is the given one; every other subscriber's record is left as it is.
C6_AcknowledgeScopedBySubKey ==
    [][\A p \in Procs :
          pc[p] = "ack_updated" =>
             /\ \A m \in LockedBy(p) : store[m].sub_key = in_sub_key[p]
             /\ pc'[p] = "idle" =>
                   \A m \in Msgs :
                       store[m].sub_key # in_sub_key[p] => store'[m] = store[m]]_vars

\* A call lists a pending message of another subscriber, or an id that names
\* no record, and has completed its update.
C6_Witness ==
    \E p \in Procs :
        /\ pc[p] = "ack_updated"
        /\ \E id \in in_msg_id_list[p] :
              /\ id \in Msgs
              /\ store[id].sub_key # in_sub_key[p]
              /\ store[id].status = "pending"
        /\ \E p2 \in Procs : pc[p2] = "ack_updated" /\ in_msg_id_list[p2] = {0}

\* --------------------------------------------------------------------
\* C7: AcknowledgeDelivery with an empty msg_id_list is a no-op. No session
\* (hence no UPDATE and no commit) is ever open for an empty list, and the call
\* returns at once, without an error and without changing a record or a lock.
C7_EmptyListIsNoOp ==
    /\ [](\A p \in Procs :
            pc[p] \in {"ack_called", "ack_updated"} => in_msg_id_list[p] # {})
    /\ [][\A p \in Procs :
             (outcome'[p] = "noop" /\ outcome[p] # "noop")
             => /\ pc[p] = "idle" /\ pc'[p] = "idle"
                /\ UNCHANGED <<store, writes, ackDone>>]_vars

\* A call with an empty list has returned.
C7_Witness ==
    \E p \in Procs : outcome[p] = "noop"

\* --------------------------------------------------------------------
\* C8 as stated: for every batch_size N the caller supplies, N = 0 included,
\* GetMessages returns at most N records, and at most GET_BATCH_SIZE when none
\* is supplied. Refuted for N = 0, which the handler takes for "not supplied".
C8_AtMostBatchSize ==
    [][\A p \in Procs :
          SelectStep(p) =>
             Len(msg_list'[p]) <= RequestedBatchSize(in_batch_size[p])]_vars

\* --------------------------------------------------------------------
\* C9: GetMessages never returns a record whose expiration_time is at or
\* before the time at which that call started.
C9_NoExpiredRecord ==
    [][\A p \in Procs :
          SelectStep(p) =>
             \A i \in DOMAIN msg_list'[p] :
                 msg_list'[p][i].expiration_time > call_time[p]]_vars

\* A fetch has returned a message that comes after a pending, unlocked message
\* of the same subscriber which had been delivered before: the earlier one is
\* left out because it has expired.
C9_Witness ==
    \E p \in Procs, m \in Msgs :
        /\ pc[p] = "get_selected"
        /\ store[m].sub_key = in_sub_key[p]
        /\ store[m].status = "pending"
        /\ store[m].expiration_time <= clock
        /\ fetched[m] >= 1
        /\ m \notin Returned(p)
        /\ \E r \in Returned(p) : r > m

\* --------------------------------------------------------------------
\* C10: delivery is lease-by-lock. The rows a fetch returned are locked exactly
\* from get_messages returning to the end of that call; once the call has
\* returned it holds no lock, so nothing but an acknowledgment or the
\* expiration keeps the message from the next fetch.
C10_LeaseByLock ==
    \A p \in Procs :
        /\ FetchInFlight(p) => LockedBy(p) = Returned(p)
        /\ pc[p] \in {"idle", "get_called"} => LockedBy(p) = {}

\* A message delivered before is returned again, unacknowledged, while no
\* time has passed at all.
C10_Witness ==
    \E p \in Procs :
        /\ pc[p] = "get_selected"
        /\ clock = 0
        /\ \E i \in DOMAIN msg_list[p] :
              /\ msg_list[p][i].delivery_count >= 1
              /\ fetched[msg_list[p][i].msg_id] >= 1
\* --------------------------------------------------------------------
\* C11: every GetMessages call that has locked rows releases them by the time
\* it returns, whether it returns by its commit or by an exception that closes
\* the session; so the rows a waiting fetch wants come free.
C11_LocksReleasedOnEveryPath ==
    \A p \in Procs :
        FetchInFlight(p) ~> (pc[p] = "idle" /\ LockedBy(p) = {})

\* A fetch waits for rows that another fetch, which is in flight, has locked.
C11_Witness ==
    \E p, q \in Procs :
        /\ FetchInFlight(p)
        /\ pc[q] = "get_called"
        /\ Range(get_messages_rows(store, in_sub_key[q],
                                   EffectiveBatchSize(in_batch_size[q]), now[q]))
              \cap LockedBy(p) # {}

\* --------------------------------------------------------------------
\* C12: a GetMessages or AcknowledgeDelivery call that fails before its commit
\* leaves every stored record as it was (no row of its msg_id_list is
\* acknowledged, no delivery_count changed), holds no lock afterwards, and
\* ends in an error for the caller.
C12_FailureRollsBack ==
    [][\A p \in Procs :
          (pc[p] # "idle" /\ pc'[p] = "idle" /\ store' # Committed(store, writes[p]))
           \/ (pc[p] # "idle" /\ outcome'[p] = "error")
          => /\ store' = store
             /\ LockedBy(p)' = {}
             /\ outcome'[p] = "error"]_vars

\* An acknowledgment of both messages is about to fail after its UPDATE, and
\* a call has failed before.
C12_Witness ==
    \E p, q \in Procs :
        /\ pc[p] = "ack_updated" /\ LockedBy(p) = Msgs
        /\ \A m \in Msgs : store[m].status = "pending"
        /\ outcome[q] = "error"
\* ====================================================================
\* Properties of the connector container
\* ====================================================================
\* A thread is inside the "with self.lock:" block of a method.
InCommand(t) ==
    cpc[t] \in {"add_conn_def_locked", "add_conn_def_connected", "add_channel_locked"}

\* The step in which a thread's add_conn_def call ends, by return or exception.
AddConnDefEnds(t) ==
    /\ cpc[t] \in {"add_conn_def_locked", "add_conn_def_connected"}
    /\ cpc'[t] = "idle"

\* The step in which a thread's add_channel call ends.
AddChannelEnds(t) == cpc[t] = "add_channel_locked" /\ cpc'[t] = "idle"

\* The queue add_channel listens on.
Destination == "DEV.QUEUE.1"

\* The listeners among ls that are bound to connection c and destination d.
ListenersOn(ls, c, d) == {l \in ls : l.conn = c /\ l.destination = d}

\* --------------------------------------------------------------------
\* C13: add_conn_def is all-or-nothing. Every registry entry is a connected
\* connection; a call in which connect() fails ends in an error and leaves the
\* registry as it was; a call that ends well has put the connection it
\* connected, and nothing else, under config.name.
C13_AddConnDefAllOrNothing ==
    /\ [](\A n \in DOMAIN connections : connections[n].state = "connected")
    /\ [][\A t \in Threads :
             AddConnDefEnds(t) =>
                IF coutcome'[t] = "ok"
                THEN /\ conn[t].state = "connected"
                     /\ connections'[config[t].name] = conn[t]
                     /\ \A n \in DOMAIN connections' \ {config[t].name} :
                           n \in DOMAIN connections /\ connections'[n] = connections[n]
                ELSE /\ cpc[t] = "add_conn_def_locked"
                     /\ connections' = connections]_vars

\* connect() has failed for a name that is not in the registry, which holds
\* another definition.
C13_Witness ==
    /\ last_cmd.op = "add_conn_def_failed"
    /\ last_cmd.name \notin DOMAIN connections
    /\ connections # NoConnections
    /\ \E t \in Threads : coutcome[t] = "ConnectionError"

\* --------------------------------------------------------------------
\* C14 as stated: an add_conn_def call for a name that is in the registry
\* fails and leaves the registry, the existing connection included, as it was,
\* also when the name came in while the call was waiting for the lock.
\* Refuted: the method has no such test and replaces the entry.
C14_NameIsUnique ==
    [][\A t \in Threads :
          (AddConnDefEnds(t) /\ config[t].name \in DOMAIN connections)
          => /\ coutcome'[t] # "ok"
             /\ connections' = connections]_vars

\* --------------------------------------------------------------------
\* C15 as stated: the deletion of a definition that follows at once on the
\* add_conn_def call that created it leaves the registry as it was before that
\* call. Refuted: the deletion handler does nothing and the entry stays.
C15_AddThenDeleteRestores ==
    [][(/\ last_cmd.op = "add_conn_def"
        /\ last_cmd.name \notin DOMAIN last_cmd.before
        /\ last_cmd'.op = "delete"
        /\ last_cmd'.name = last_cmd.name)
       => /\ connections' = last_cmd.before
          /\ listeners' = {}]_vars

\* --------------------------------------------------------------------
\* C16: no (connection, destination) pair ever has two listeners, and an
\* add_channel call for a pair that has a listener ends in a conflict and
\* starts none. No reachable state has a listener (add_channel starts none),
\* so the formula holds without the second call on a pair with a listener
\* ever taking place.
C16_OneListenerPerPair ==
    /\ [](\A n \in DOMAIN connections :
             Cardinality(ListenersOn(listeners, connections[n].id, Destination)) <= 1)
    /\ [][\A t \in Threads :
             (/\ AddChannelEnds(t)
              /\ config[t].connection_name \in DOMAIN connections
              /\ ListenersOn(listeners, connections[config[t].connection_name].id,
                             Destination) # {})
             => /\ coutcome'[t] = "Conflict"
                /\ listeners' = listeners]_vars

\* A pair has a listener: the case of C16, which no behaviour reaches.
C16_PairHasListener ==
    \E n \in DOMAIN connections :
        ListenersOn(listeners, connections[n].id, Destination) # {}

\* --------------------------------------------------------------------
\* C17 as stated: an add_channel call whose config.connection_name is
\* registered and connected ends well, having started a listener bound to that
\* connection and the destination and registered under the channel name; any
\* other add_channel call fails and starts no listener. Refuted: the call
\* fails for a registered, connected connection too.
C17_AddChannelResolvesConnection ==
    [][\A t \in Threads :
          AddChannelEnds(t) =>
             IF /\ config[t].connection_name \in DOMAIN connections
                /\ connections[config[t].connection_name].state = "connected"
             THEN /\ coutcome'[t] = "ok"
                  /\ \E l \in listeners' \ listeners :
                        /\ l.channel = config[t].name
                        /\ l.conn = connections[config[t].connection_name].id
                        /\ l.destination = Destination
             ELSE /\ coutcome'[t] # "ok"
                  /\ listeners' = listeners]_vars

\* --------------------------------------------------------------------
\* C18 as stated: a request with a body whose credential is not the expected
\* one gets the 403 response and is not passed to handle_http_request, and
\* serving it changes no registry entry. Refuted: check_credentials lets every
\* request in.
C18_InvalidCredentialIs403 ==
    /\ []((environ.CONTENT_LENGTH = "length" /\ environ.HTTP_AUTHORIZATION = "other")
            => /\ response.status = _http_403
               /\ ~response.dispatched)
    /\ [][(environ' # environ \/ response' # response)
            => connections' = connections /\ listeners' = listeners]_vars

\* --------------------------------------------------------------------
\* A request in the handling of which an exception is raised: CONTENT_LENGTH
\* is not in environ or is no number, or the body that is dispatched is no
\* JSON or has no "action".
Faulty(e) ==
    \/ e.CONTENT_LENGTH \in {"missing", "abc"}
    \/ e.CONTENT_LENGTH = "length" /\ e.body \in {"not_json", "json_without_action"}

\* C19: no exception leaves on_wsgi_request. Every request gets a response,
\* and a request whose handling raises gets 500 'Internal server error'.
C19_ExceptionsBecome500 ==
    environ # NoEnviron =>
        /\ response.raised = ""
        /\ response.status \in {_http_200, _http_400, _http_403, _http_500}
        /\ Faulty(environ) <=> response.status = _http_500
        /\ response.status = _http_500 =>
              /\ response.response = "Internal server error"
              /\ response.content_type = "text/plain"

\* The handler has failed on a body without an "action", and the request got
\* its 500 response.
C19_Witness ==
    /\ environ.CONTENT_LENGTH = "length"
    /\ environ.body = "json_without_action"
    /\ response.dispatched
    /\ response.status = _http_500

\* --------------------------------------------------------------------
\* C20: registry commands are atomic with respect to each other. At most one
\* thread is inside a command's locked block, it is the holder of the lock,
\* and the registry changes only in the step in which that thread's command
\* ends: no state shows a part of a command's change.
C20_CommandsAtomic ==
    /\ [](\A t, u \in Threads : (InCommand(t) /\ InCommand(u)) => t = u)
    /\ [](\A t \in Threads : InCommand(t) <=> lock = t)
    /\ [][connections' # connections
            => \E t \in Threads :
                  /\ lock = t /\ lock' = "none"
                  /\ InCommand(t) /\ cpc'[t] = "idle"
                  /\ \A u \in Threads \ {t} : ~InCommand(u)]_vars

\* One thread has connected inside add_conn_def and holds the lock, while
\* another one has called add_channel and waits for it.
C20_Witness ==
    \E t, u \in Threads :
        /\ cpc[t] = "add_conn_def_connected" /\ lock = t
        /\ cpc[u] = "add_channel_called"
        /\ connections # NoConnections
\* ====================================================================
\* Properties of the listener task
\* ====================================================================
\* The listener thread has left _impl, by the end of the loop or an exception.
ListenerEnded ==
    lpc \in {"exited", "raised_UnicodeError", "raised_AttributeError",
             "raised_WebSphereMQJMSException"}

\* keep_running has been set to False.
Stopped == keep_running = <<FALSE>>

\* The step in which a receive call is issued.
ReceiveIssued == lpc # "receiving" /\ lpc' = "receiving"

\* --------------------------------------------------------------------
\* C21 as stated: once receive has raised a broker-level fault the loop has
\* stopped for good and the connection the listener owns is marked failed.
\* Refuted: the handler logs and re-raises, and the connection stays connected.
C21_FaultMarksConnectionFailed ==
    /\ [](lpc = "raised_WebSphereMQJMSException" => task_conn.state = "failed")
    /\ [][lpc = "raised_WebSphereMQJMSException" => ~ReceiveIssued]_vars

\* --------------------------------------------------------------------
\* The listener leaves _impl at the first loop test after the flag is
\* cleared, leaves it by the loop test only then, and does end: a receive
\* call in flight returns first.
ExitsAtNextTest ==
    /\ [][(Stopped /\ lpc = "loop" /\ lpc' # lpc) => lpc' = "exited"]_vars
    /\ [][lpc' = "exited" => (lpc \in {"loop", "exited"} /\ Stopped)]_vars
    /\ (Stopped /\ lpc # "not_started") ~> ListenerEnded

\* C22 as stated: the stop of a listener is cooperative. With keep_running
\* false no receive call is issued, and the listener leaves _impl at its next
\* loop test. Refuted: the flag is read by the loop test and not again by the
\* call of receive, so a flag cleared between the two does not keep the call
\* from being issued.
C22_NoReceiveAfterStop ==
    /\ [][Stopped => ~ReceiveIssued]_vars
    /\ ExitsAtNextTest

\* C22 as amended: with keep_running false at most one more receive call is
\* issued (that of a loop body whose test had read the flag before it was
\* cleared), and the listener leaves _impl at its next loop test.
C22_CooperativeStop ==
    /\ [](calls_since_stop <= 1)
    /\ ExitsAtNextTest

\* The flag was cleared after the loop's test and before the call of receive:
\* the call has been issued and is in flight, the listener is still running.
C22_Witness ==
    /\ Stopped
    /\ lpc = "receiving"
    /\ calls_since_stop = 1
    /\ received # <<>>

\* --------------------------------------------------------------------
\* C23: within the listener, messages go to the pool's request queue in the
\* order in which receive returned them: what has been submitted is a prefix
\* of what has been received, at most one received message is not yet
\* submitted, and the requests waiting in the queue stand in that order. The
\* order in which the workers finish is another matter.
C23_SubmittedInReceiveOrder ==
    /\ Len(submitted) <= Len(received)
    /\ Len(received) - Len(submitted) <= 1
    /\ \A i \in DOMAIN submitted : submitted[i] = received[i]
    /\ \A i, j \in DOMAIN requests_queue :
          i < j => \E k, l \in DOMAIN submitted :
                      /\ k < l
                      /\ submitted[k] = requests_queue[i]
                      /\ submitted[l] = requests_queue[j]

\* Three messages were submitted in order; the callback has run for the second
\* while the first is still with its worker and the third waits in the queue.
C23_Witness ==
    /\ Len(submitted) >= 3
    /\ submitted[1] \in in_work
    /\ invoked[submitted[2]] = 1
    /\ submitted[3] \in Range(requests_queue)

\* --------------------------------------------------------------------
\* C26 as stated: the received messages waiting for a worker never number
\* more than the pool's bound, because the receive loop blocks in putRequest
\* (issues no receive call) while the queue is full. Refuted: the queue has no
\* limit and every received message is put to it at once.
C26_BoundedBlockingQueue ==
    /\ [](Len(requests_queue) <= POOL_SIZE)
    /\ [][ReceiveIssued => Len(requests_queue) < POOL_SIZE]_vars
\* ====================================================================
\* End to end: control API, channel, listener, callback
\* ====================================================================
\* --------------------------------------------------------------------
\* C24 as stated: once a connection has been created and add_channel has then
\* been called for it, a listener registered under the channel's name runs on
\* the destination, so that a message arriving there is received and handed to
\* on_mq_message_received. (With every name of ConnNames registered, the
\* connection the call named is.) Refuted: add_channel leaves no listener
\* behind, and no message that arrives is ever received.
C24_ChannelDeliversMessages ==
    (/\ last_cmd.op \in {"add_channel", "add_channel_failed"}
     /\ DOMAIN last_cmd.before = ConnNames)
    => \E l \in listeners :
          /\ l.channel = last_cmd.name
          /\ l.destination = Destination
          /\ \E n \in DOMAIN connections : connections[n].id = l.conn
\* ---------------------------------------------------------------------------
\* Properties of SSO Logout
\* ---------------------------------------------------------------------------

\* C25: Logout always responds with status ok. Every served Logout request has
\* status ok whether or not the backend's logout raised, and from any state of
\* the backend two requests for the same application, whatever their USTs
\* (valid or not) and whatever else fails, get the same status.
C25_LogoutStatusHidesValidity ==
    /\ sso_input # NoInput => sso_status = status_code_ok
    /\ \A i1 \in LogoutInputs, i2 \in LogoutInputs,
          f1 \in BOOLEAN, f2 \in BOOLEAN :
          (/\ i1.current_app = i2.current_app
           /\ i1.remote_addr = i2.remote_addr)
          => _handle_sso(sessions, i1, f1).status
             = _handle_sso(sessions, i2, f2).status

\* A request with a UST that names no session was served, its logout raised,
\* the status is ok, and a request with a valid UST was possible instead.
C25_Witness ==
    /\ sso_input # NoInput
    /\ sso_input.ust \notin sessions
    /\ sso_raised
    /\ sso_status = status_code_ok
    /\ sessions # {}
    /\ ~_handle_sso(sessions,
                    [sso_input EXCEPT !.ust = CHOOSE u \in sessions : TRUE],
                    FALSE).raised

\* ====================================================================
\* Further properties of the connector container
\* ====================================================================
\* C27: on_wsgi_request calls start_response exactly once per request on
\* every path, with a status that is one of 200, 400, 403 or 500, and returns
\* a one-element body holding the response; the status is 200 only when
\* CONTENT_LENGTH was usable, the credential check passed and
\* handle_http_request returned without raising.
C27_OneResponsePerRequest ==
    environ # NoEnviron =>
        /\ response.start_response_calls = 1
        /\ response.status \in {_http_200, _http_400, _http_403, _http_500}
        /\ Len(response.body) = 1
        /\ response.body[1] = response.response
        /\ response.status = _http_200 =>
              /\ environ.CONTENT_LENGTH = "length"
              /\ check_credentials(environ.HTTP_AUTHORIZATION)
              /\ handle_http_request(environ.body).raised = ""

\* A request passed the credential check and its handler raised after status
\* had been bound to 200: start_response was called once, with 500, and the
\* one-element body was returned.
C27_Witness ==
    /\ environ # NoEnviron
    /\ environ.CONTENT_LENGTH = "length"
    /\ check_credentials(environ.HTTP_AUTHORIZATION)
    /\ handle_http_request(environ.body).raised # ""
    /\ RequestTry(environ).status = _http_200
    /\ response.start_response_calls = 1
    /\ response.status = _http_500
    /\ response.body = <<"Internal server error">>

\* --------------------------------------------------------------------
\* A thread has called add_conn_def or add_channel and waits for the lock.
WaitsForLock(t) == cpc[t] \in {"add_conn_def_called", "add_channel_called"}

\* The lock is released on every path: a thread outside the "with" block does
\* not hold the lock, a call that ends ends with the lock free, and a lock
\* that is held is eventually free.
LockReleased ==
    /\ [](\A t \in Threads :
            cpc[t] \in {"idle", "add_conn_def_called", "add_channel_called"}
            => lock # t)
    /\ [][\A t \in Threads :
            (AddConnDefEnds(t) \/ AddChannelEnds(t)) => lock' = "none"]_vars
    /\ (lock # "none") ~> (lock = "none")

\* C28 as stated: the lock is released on every path, and a command of a
\* thread waiting for the lock eventually acquires it. Refuted: the lock is
\* released, but the other thread can call again and take it first, time
\* after time.
C28_WaitingCommandAcquires ==
    /\ LockReleased
    /\ \A t \in Threads : WaitsForLock(t) ~> (lock = t)

\* C28 as amended: the lock is released on every path, and while a command
\* waits a free lock does not stay free: it is acquired, by that command or by
\* another one.
C28_LockReleasedOnEveryPath ==
    /\ LockReleased
    /\ \A t \in Threads :
          (WaitsForLock(t) /\ lock = "none") ~> (lock # "none")

\* One thread's command has failed, by connect() or in add_channel, and the
\* other thread has acquired the lock after it.
C28_Witness ==
    \E t \in Threads, u \in Threads :
        /\ t # u
        /\ cpc[t] = "idle"
        /\ coutcome[t] \in {"ConnectionError", "NameError"}
        /\ lock = u
        /\ cpc[u] \in {"add_conn_def_locked", "add_channel_locked"}

====
